---- MODULE Spec2Model ----
(***************************************************************************)
(* Dolla: group expense splitting.  The balance engine folds a group's     *)
(* expenses into a balance per phone number; the settlement minimizer      *)
(* turns the balances into a list of payments.  The same two computations  *)
(* appear in web/src/App.tsx (balances, settlements), sms-server.js and    *)
(* sms-mock.js (calculateSettlements).                                     *)
(*                                                                         *)
(* Phones are the numbers 1..n; a phone k stands for a canonical number    *)
(* with a leading '+', so the keys of a balance object are enumerated in   *)
(* insertion order.  A JavaScript object keyed by phone is its keys in      *)
(* insertion order with the value of each key.  Amounts are integer cents. *)
(***************************************************************************)
EXTENDS Integers, Sequences, FiniteSets, TLC

\* Bound of the settlement specification: the phones of a balance map.
NPeople == 5

\* Bounds of the single-expense specification: the phones that may pay or
\* participate, and the largest amount in cents.
SharePeople == 4
ShareMaxAmount == 9

\* Bound of the group specification: the expenses a group holds.
MaxExpenses == 2

VARIABLES
    balances,   \* the balance map handed to the minimizer
    debtors,    \* settlements: the debtors array
    creditors,  \* settlements: the creditors array
    i,          \* settlements: index into debtors (1-based here)
    j,          \* settlements: index into creditors (1-based here)
    tx,         \* settlements: the payments emitted so far
    pc,         \* position of the computation being stepped
    e,          \* balances: the expense of the current loop iteration
    map,        \* balances: the map being built
    remainder,  \* balances: the cents of the current expense still to hand out
    idx,        \* balances: participants of the current expense already debited
    debited,    \* history: what each forEach iteration took off its participant
    users,      \* state.users, as phones
    members,    \* state.membersByGroupId[currentGroupId], as phones
    nonMembers, \* state.nonMembersByGroupId[currentGroupId], as phones
    expenses,   \* state.expensesByGroupId[currentGroupId]
    smsLog,     \* sms-log.json: the messages the SMS mock has recorded
    response,   \* sms-server.js: the response to the last request
    input,      \* normalizePhone: the string entered, as its characters
    normalized, \* normalizePhone(input)
    renormalized, \* normalizePhone(normalizePhone(input))
    now,        \* Date.now(), in minutes
    stored,     \* localStorage: the state last saved, for the current group
    requests,   \* fetch calls of the app that nothing awaits, in flight
    sent,       \* history: the notifications notifyNonMembers has sent
    notifiers,  \* the calls of notifyNonMembers that await their fetch
    appState,   \* state: users, groups and the lists keyed by group id
    me,         \* the logged-in user, as a phone (0: null)
    view,       \* 'home' | 'wizard' | 'group'
    currentGroupId,     \* the id of the current group (0: null)
    lastCheckedGroupId, \* lastCheckedGroupId.current (0: null)
    step,       \* the step of the wizard
    generated   \* the number of group ids generateId has handed out

settleVars == <<balances, debtors, creditors, i, j, tx>>
shareVars == <<e, map, remainder, idx, debited>>
groupVars == <<users, members, nonMembers, expenses>>
smsVars == <<smsLog, response>>
phoneVars == <<input, normalized, renormalized>>
notifyVars == <<now, stored, requests, sent, notifiers>>
appVars == <<appState, me, view, currentGroupId, lastCheckedGroupId, step, generated>>

vars == <<balances, debtors, creditors, i, j, tx, pc, e, map, remainder, idx,
          debited, users, members, nonMembers, expenses, smsLog, response,
          input, normalized, renormalized, now, stored, requests, sent,
          notifiers, appState, me, view, currentGroupId, lastCheckedGroupId,
          step, generated>>

----------------------------------------------------------------------------
(* Helpers on sequences and balance objects *)

Range(s) == {s[n] : n \in 1..Len(s)}

RECURSIVE SumSeq(_)
SumSeq(s) == IF s = <<>> THEN 0 ELSE s[1] + SumSeq(Tail(s))

Abs(x) == IF x < 0 THEN -x ELSE x

Min(a, b) == IF a <= b THEN a ELSE b

\* A balance object: its keys in insertion order and the value of each key.
EmptyMap == [keys |-> <<>>, val |-> <<>>]

Keys(bm) == bm.keys

HasKey(bm, p) == p \in DOMAIN bm.val

\* map[p] ?? 0
Get(bm, p) == IF p \in DOMAIN bm.val THEN bm.val[p] ELSE 0

\* map[p] = v : an existing key keeps its place, a new key goes last.
SetKey(bm, p, v) ==
    IF p \in DOMAIN bm.val
    THEN [keys |-> bm.keys, val |-> [bm.val EXCEPT ![p] = v]]
    ELSE [keys |-> Append(bm.keys, p), val |-> (p :> v) @@ bm.val]

\* Object.entries(map): the entries in insertion order.
Entries(bm) ==
    [n \in 1..Len(bm.keys) |-> [phone |-> bm.keys[n], amount |-> bm.val[bm.keys[n]]]]

\* The sum of the values of a balance object.
SumValues(bm) == SumSeq([n \in 1..Len(bm.keys) |-> bm.val[bm.keys[n]]])

\* The values of the variables a specification does not use.
SettleIdle ==
    /\ balances = EmptyMap /\ debtors = <<>> /\ creditors = <<>>
    /\ i = 1 /\ j = 1 /\ tx = <<>>

ShareIdle ==
    /\ e = [amountCents |-> 0, payerPhone |-> 0, participants |-> <<>>]
    /\ map = EmptyMap /\ remainder = 0 /\ idx = 0 /\ debited = <<>>

GroupIdle ==
    /\ users = {} /\ members = <<>> /\ nonMembers = <<>> /\ expenses = <<>>

SmsIdle ==
    /\ smsLog = <<>> /\ response = [status |-> 0, error |-> "", sms |-> <<>>]

PhoneIdle ==
    /\ input = <<>> /\ normalized = <<>> /\ renormalized = <<>>

NotifyIdle ==
    /\ now = 0 /\ stored = <<>> /\ requests = <<>> /\ sent = <<>>
    /\ notifiers = <<>>

AppIdle ==
    /\ appState = <<>> /\ me = 0 /\ view = "home" /\ currentGroupId = 0
    /\ lastCheckedGroupId = 0 /\ step = 1 /\ generated = 0

----------------------------------------------------------------------------
(* The balance engine: App.tsx balances, lines 578-597 *)

\* Lines 582-583: every member, then every invited non-member, starts at 0.
RECURSIVE InitMapFrom(_, _)
InitMapFrom(m, roster) ==
    IF roster = <<>> THEN m
    ELSE InitMapFrom(SetKey(m, roster[1], 0), Tail(roster))

InitMapEmpty(mem, non) == EmptyMap

InitMap(mem, non) == InitMapFrom(InitMapFrom(EmptyMap, mem), non)

\* Line 588: Math.floor(e.amountCents / e.participants.length).
\* Line 589: the remainder.  (No participants: the division yields Infinity
\* and the forEach below does not run; the share is then never used.)
ShareOf(x) ==
    IF Len(x.participants) = 0 THEN 0
    ELSE x.amountCents \div Len(x.participants)

RemainderOf(x) == x.amountCents - ShareOf(x) * Len(x.participants)

\* Line 587: map[e.payerPhone] = (map[e.payerPhone] ?? 0) + e.amountCents
CreditPayerIfKnown(m, x) ==
    IF HasKey(m, x.payerPhone)
    THEN SetKey(m, x.payerPhone, Get(m, x.payerPhone) + x.amountCents)
    ELSE m

CreditPayer(m, x) == SetKey(m, x.payerPhone, Get(m, x.payerPhone) + x.amountCents)

\* Lines 590-594: one call of the forEach callback, on participant p with
\* the remainder counter rem; the result is the map and the counter.
DebitNoExtra(m, share, rem, p) ==
    [bm |-> SetKey(m, p, Get(m, p) - share), remainder |-> rem]

DebitNoDecrement(m, share, rem, p) ==
    [bm |-> SetKey(m, p, Get(m, p) - (share + (IF rem > 0 THEN 1 ELSE 0))),
     remainder |-> rem]

DebitOverwrite(m, share, rem, p) ==
    [bm |-> SetKey(m, p, 0 - (share + (IF rem > 0 THEN 1 ELSE 0))),
     remainder |-> IF rem > 0 THEN rem - 1 ELSE rem]

Debit(m, share, rem, p) ==
    LET thisShare == share + (IF rem > 0 THEN 1 ELSE 0)
    IN  [bm |-> SetKey(m, p, Get(m, p) - thisShare),
         remainder |-> IF rem > 0 THEN rem - 1 ELSE rem]

RECURSIVE DebitAll(_, _, _, _)
DebitAll(m, share, rem, ps) ==
    IF ps = <<>> THEN m
    ELSE LET r == Debit(m, share, rem, ps[1])
         IN  DebitAll(r.bm, share, r.remainder, Tail(ps))

\* Lines 586-595: the body of the loop over the expenses.
FoldExpense(m, x) ==
    DebitAll(CreditPayer(m, x), ShareOf(x), RemainderOf(x), x.participants)

RECURSIVE FoldExpenses(_, _)
FoldExpenses(m, xs) ==
    IF xs = <<>> THEN m ELSE FoldExpenses(FoldExpense(m, xs[1]), Tail(xs))

\* The balance map of a group.
Balances(mem, non, xs) == FoldExpenses(InitMap(mem, non), xs)

----------------------------------------------------------------------------
(* The settlement minimizer: App.tsx settlements, lines 599-615 *)

\* Array.prototype.sort((a,b) => b.amount - a.amount): descending by amount,
\* stable (equal amounts keep their order).
SortUnsorted(s) == s

RECURSIVE SortDesc(_)
SortDesc(s) ==
    IF s = <<>> THEN <<>>
    ELSE LET srt == SortDesc(SubSeq(s, 1, Len(s) - 1))
             x == s[Len(s)]
             k == Cardinality({n \in 1..Len(srt) : srt[n].amount >= x.amount})
         IN  SubSeq(srt, 1, k) \o <<x>> \o SubSeq(srt, k + 1, Len(srt))

\* The loop over Object.entries(balances): skip |amt| < 1, negative amounts
\* go to debtors with the sign flipped.
RECURSIVE Debtors(_)
Debtors(bm) ==
    IF bm = <<>> THEN <<>>
    ELSE LET en == bm[1] IN
         IF Abs(en.amount) < 1 THEN Debtors(Tail(bm))
         ELSE IF en.amount < 0
              THEN <<[phone |-> en.phone, amount |-> -en.amount]>> \o Debtors(Tail(bm))
              ELSE Debtors(Tail(bm))

\* A partition that keeps the settled entries among the creditors.
RECURSIVE CreditorsKeepSettled(_)
CreditorsKeepSettled(bm) ==
    IF bm = <<>> THEN <<>>
    ELSE LET en == bm[1] IN
         IF en.amount < 0
         THEN CreditorsKeepSettled(Tail(bm))
         ELSE <<[phone |-> en.phone, amount |-> en.amount]>> \o CreditorsKeepSettled(Tail(bm))

RECURSIVE Creditors(_)
Creditors(bm) ==
    IF bm = <<>> THEN <<>>
    ELSE LET en == bm[1] IN
         IF Abs(en.amount) < 1 THEN Creditors(Tail(bm))
         ELSE IF en.amount < 0
              THEN Creditors(Tail(bm))
              ELSE <<[phone |-> en.phone, amount |-> en.amount]>> \o Creditors(Tail(bm))

\* The state of the matching loop.
LoopStart(bm) ==
    [debtors |-> SortDesc(Debtors(Entries(bm))),
     creditors |-> SortDesc(Creditors(Entries(bm))),
     i |-> 1, j |-> 1, tx |-> <<>>]

\* while (i < debtors.length && j < creditors.length)
LoopGuard(st) == st.i <= Len(st.debtors) /\ st.j <= Len(st.creditors)

\* A loop body that tests the amounts before it decrements them.
LoopBodyStaleTest(st) ==
    LET d == st.debtors[st.i]
        c == st.creditors[st.j]
        pay == Min(d.amount, c.amount)
    IN  [debtors |-> [st.debtors EXCEPT ![st.i].amount = d.amount - pay],
         creditors |-> [st.creditors EXCEPT ![st.j].amount = c.amount - pay],
         i |-> IF d.amount <= 1 THEN st.i + 1 ELSE st.i,
         j |-> IF c.amount <= 1 THEN st.j + 1 ELSE st.j,
         tx |-> Append(st.tx, [from |-> d.phone, to |-> c.phone, amount |-> pay])]

\* One iteration: pay the smaller remaining amount, then advance past the
\* debtor and past the creditor whose remaining amount is <= 1.
LoopBody(st) ==
    LET d == st.debtors[st.i]
        c == st.creditors[st.j]
        pay == Min(d.amount, c.amount)
    IN  [debtors |-> [st.debtors EXCEPT ![st.i].amount = d.amount - pay],
         creditors |-> [st.creditors EXCEPT ![st.j].amount = c.amount - pay],
         i |-> IF d.amount - pay <= 1 THEN st.i + 1 ELSE st.i,
         j |-> IF c.amount - pay <= 1 THEN st.j + 1 ELSE st.j,
         tx |-> Append(st.tx, [from |-> d.phone, to |-> c.phone, amount |-> pay])]

RECURSIVE RunLoop(_)
RunLoop(st) == IF LoopGuard(st) THEN RunLoop(LoopBody(st)) ELSE st.tx

\* The settlement list of a balance map.
Settlements(bm) == RunLoop(LoopStart(bm))

----------------------------------------------------------------------------
(* Specification SpecSettle: the minimizer, step by step, on a balance map *)

\* The balance maps drawn: keys 1..n in insertion order, values within
\* BalanceValues that sum to zero (the maps the balance engine yields).
BalanceValues == -6..6

ZeroSumMap(n, f) ==
    [keys |-> [q \in 1..n |-> q],
     val |-> [q \in 1..n |-> IF q < n THEN f[q]
                              ELSE 0 - SumSeq([m \in 1..(n-1) |-> f[m]])]]

SettleInit ==
    /\ \E n \in 0..NPeople :
         IF n = 0 THEN balances = EmptyMap
         ELSE \E f \in [1..(n-1) -> BalanceValues] :
                /\ (0 - SumSeq([m \in 1..(n-1) |-> f[m]])) \in BalanceValues
                /\ balances = ZeroSumMap(n, f)
    /\ debtors = <<>>
    /\ creditors = <<>>
    /\ i = 1
    /\ j = 1
    /\ tx = <<>>
    /\ pc = "start"
    /\ ShareIdle
    /\ GroupIdle
    /\ SmsIdle
    /\ PhoneIdle
    /\ NotifyIdle
    /\ AppIdle

\* Lines 600-608: partition, sort, tx = [], i = j = 0.
SettleBegin ==
    /\ pc = "start"
    /\ LET st == LoopStart(balances) IN
        /\ debtors' = st.debtors
        /\ creditors' = st.creditors
        /\ i' = st.i
        /\ j' = st.j
        /\ tx' = st.tx
    /\ pc' = "loop"
    /\ UNCHANGED <<balances, shareVars, groupVars, smsVars, phoneVars, appVars,
                   notifyVars>>

\* An iteration whose decrements are written through to the balance map.
SettleIterateInPlace ==
    /\ pc = "loop"
    /\ LoopGuard([debtors |-> debtors, creditors |-> creditors, i |-> i, j |-> j, tx |-> tx])
    /\ LET st == LoopBody([debtors |-> debtors, creditors |-> creditors,
                           i |-> i, j |-> j, tx |-> tx])
           d == debtors[i]
           c == creditors[j]
           pay == Min(d.amount, c.amount) IN
        /\ debtors' = st.debtors
        /\ creditors' = st.creditors
        /\ i' = st.i
        /\ j' = st.j
        /\ tx' = st.tx
        /\ balances' = SetKey(SetKey(balances, d.phone, Get(balances, d.phone) + pay),
                              c.phone, Get(balances, c.phone) - pay)
    /\ UNCHANGED <<pc, shareVars, groupVars, smsVars, phoneVars, appVars, notifyVars>>

\* Lines 609-613: one iteration of the while loop.
SettleIterate ==
    /\ pc = "loop"
    /\ LoopGuard([debtors |-> debtors, creditors |-> creditors, i |-> i, j |-> j, tx |-> tx])
    /\ LET st == LoopBody([debtors |-> debtors, creditors |-> creditors,
                           i |-> i, j |-> j, tx |-> tx]) IN
        /\ debtors' = st.debtors
        /\ creditors' = st.creditors
        /\ i' = st.i
        /\ j' = st.j
        /\ tx' = st.tx
    /\ UNCHANGED <<balances, pc, shareVars, groupVars, smsVars, phoneVars, appVars,
                  notifyVars>>

\* Line 614: the loop is over, return tx.
SettleReturn ==
    /\ pc = "loop"
    /\ ~LoopGuard([debtors |-> debtors, creditors |-> creditors, i |-> i, j |-> j, tx |-> tx])
    /\ pc' = "done"
    /\ UNCHANGED <<settleVars, shareVars, groupVars, smsVars, phoneVars,
                   appVars, notifyVars>>

SettleNext == SettleBegin \/ SettleIterate \/ SettleReturn

SpecSettle == SettleInit /\ [][SettleNext]_vars

----------------------------------------------------------------------------
(* Specification SpecShare: the balance engine, step by step, on a group   *)
(* with one expense                                                        *)

\* The sequences without repetition over a set of phones.
NoDupSeqs(S) ==
    UNION {{s \in [1..n -> S] : \A a, b \in 1..n : a # b => s[a] # s[b]} :
             n \in 0..Cardinality(S)}

ShareInit ==
    /\ \E n \in 0..SharePeople : members = [q \in 1..n |-> q]
    /\ nonMembers = <<>>
    /\ \E a \in 1..ShareMaxAmount, p \in 1..SharePeople,
          ps \in NoDupSeqs(1..SharePeople) \ {<<>>} :
         /\ e = [amountCents |-> a, payerPhone |-> p, participants |-> ps]
         /\ expenses = <<[amountCents |-> a, payerPhone |-> p, participants |-> ps]>>
    /\ users = {}
    /\ map = EmptyMap
    /\ remainder = 0
    /\ idx = 0
    /\ debited = <<>>
    /\ pc = "start"
    /\ SettleIdle
    /\ SmsIdle
    /\ PhoneIdle
    /\ NotifyIdle
    /\ AppIdle

\* Lines 579-583: the map with every member and non-member at 0.
BalancesBegin ==
    /\ pc = "start"
    /\ map' = InitMap(members, nonMembers)
    /\ pc' = "expense"
    /\ UNCHANGED <<e, remainder, idx, debited, settleVars, groupVars, smsVars,
                   phoneVars, appVars, notifyVars>>

\* Lines 587-589: credit the payer, compute the share and the remainder.
BalancesCredit ==
    /\ pc = "expense"
    /\ map' = CreditPayer(map, e)
    /\ remainder' = RemainderOf(e)
    /\ idx' = 0
    /\ pc' = "forEach"
    /\ UNCHANGED <<e, debited, settleVars, groupVars, smsVars, phoneVars,
                   appVars, notifyVars>>

\* Lines 590-594: the forEach callback on the next participant.
BalancesDebit ==
    /\ pc = "forEach"
    /\ idx < Len(e.participants)
    /\ LET p == e.participants[idx + 1]
           r == Debit(map, ShareOf(e), remainder, p)
       IN  /\ map' = r.bm
           /\ remainder' = r.remainder
           /\ debited' = Append(debited, Get(map, p) - Get(r.bm, p))
    /\ idx' = idx + 1
    /\ UNCHANGED <<e, pc, settleVars, groupVars, smsVars, phoneVars, appVars, notifyVars>>

\* Lines 595-596: the last expense is folded, return map.
BalancesReturn ==
    /\ pc = "forEach"
    /\ idx = Len(e.participants)
    /\ pc' = "done"
    /\ UNCHANGED <<shareVars, settleVars, groupVars, smsVars, phoneVars,
                   appVars, notifyVars>>

ShareNext == BalancesBegin \/ BalancesCredit \/ BalancesDebit \/ BalancesReturn

SpecShare == ShareInit /\ [][ShareNext]_vars

----------------------------------------------------------------------------
(* Specification Spec: one group of the React app.  The state is that of   *)
(* the current group after the users of Registered signed up and phone 1   *)
(* created the group; balances and settlements are recomputed from it      *)
(* (useMemo) after every change.                                           *)

Phones == 1..3
Registered == {1, 2}

\* Line 428: Math.round(parseFloat(expenseAmount || '0') * 100) is NaN for a
\* text that is no number and a whole number of cents otherwise.
NaN == [nan |-> TRUE, cents |-> 0]
Cents(c) == [nan |-> FALSE, cents |-> c]

\* The amounts entered: no number, a negative one, zero, and 5 cents (5
\* split one, two or three ways leaves a remainder of 0, 1 or 2).
Amounts == {NaN, Cents(-5), Cents(0), Cents(5)}

\* The descriptions entered, trimmed (line 428).
Descriptions == {"", "dinner"}

\* Line 211: payer is undefined until the effect of line 399 has set it.
NoPayer == 0

\* A test that lets an amount of zero through.
NotNegative(amount) == ~amount.nan /\ amount.cents >= 0

\* Line 429: amount > 0, which is false for NaN.
GreaterThanZero(amount) == ~amount.nan /\ amount.cents > 0

Roster == members \o nonMembers

\* balances and settlements of the current group (lines 578-615).
GroupBalances == Balances(members, nonMembers, expenses)
GroupSettlements == Settlements(GroupBalances)

Init ==
    /\ users = Registered
    /\ members = <<1>>
    /\ nonMembers = <<>>
    /\ expenses = <<>>
    /\ pc = "idle"
    /\ SettleIdle
    /\ ShareIdle
    /\ SmsIdle
    /\ PhoneIdle
    /\ NotifyIdle
    /\ AppIdle

Without(s, p) == SelectSeq(s, LAMBDA x : x # p)

\* Lines 480-531, with a name and a valid phone entered: a phone already
\* in the group changes nothing, a user's phone becomes a member, any other
\* phone an invited non-member.
addMemberToGroup(phone) ==
    /\ IF phone \in Range(members) \/ phone \in Range(nonMembers)
       THEN UNCHANGED <<members, nonMembers>>
       ELSE IF phone \in users
            THEN members' = Append(members, phone) /\ UNCHANGED nonMembers
            ELSE nonMembers' = Append(nonMembers, phone) /\ UNCHANGED members
    /\ UNCHANGED <<users, expenses, pc, settleVars, shareVars, smsVars,
                   phoneVars, appVars, notifyVars>>

\* Lines 539-552: the member chosen in the dialog leaves the member list.
confirmRemoveMember(phone) ==
    /\ phone \in Range(members)
    /\ members' = Without(members, phone)
    /\ UNCHANGED <<users, nonMembers, expenses, pc, settleVars, shareVars,
                   smsVars, phoneVars, appVars, notifyVars>>

\* Lines 554-564.
removeNonMemberFromGroup(phone) ==
    /\ phone \in Range(nonMembers)
    /\ nonMembers' = Without(nonMembers, phone)
    /\ UNCHANGED <<users, members, expenses, pc, settleVars, shareVars,
                   smsVars, phoneVars, appVars, notifyVars>>

\* Lines 426-442.  The button is disabled without members (line 1518); the
\* payer is one of allParticipants (lines 399, 1483-1488) or not yet set;
\* the participants are the members, then the non-members.  pc records
\* whether the call ended in the alert of line 429.
addExpense(desc, amount, payer) ==
    /\ Len(members) # 0
    /\ Len(expenses) < MaxExpenses
    /\ IF desc = "" \/ ~GreaterThanZero(amount) \/ payer = NoPayer
       THEN /\ pc' = "alert"
            /\ UNCHANGED expenses
       ELSE /\ pc' = "idle"
            /\ expenses' = Append(expenses,
                  [amountCents |-> amount.cents, payerPhone |-> payer,
                   participants |-> members \o nonMembers])
    /\ UNCHANGED <<users, members, nonMembers, settleVars, shareVars, smsVars,
                   phoneVars, appVars, notifyVars>>

\* Lines 448-453: the expense chosen in the dialog leaves the list (the
\* n-th expense stands for the one with that id).
confirmRemoveExpense(n) ==
    /\ n \in 1..Len(expenses)
    /\ expenses' = [q \in 1..(Len(expenses) - 1) |->
                      IF q < n THEN expenses[q] ELSE expenses[q + 1]]
    /\ UNCHANGED <<users, members, nonMembers, pc, settleVars, shareVars,
                   smsVars, phoneVars, appVars, notifyVars>>

Next ==
    \/ \E phone \in Phones : addMemberToGroup(phone)
    \/ \E phone \in Phones : confirmRemoveMember(phone)
    \/ \E phone \in Phones : removeNonMemberFromGroup(phone)
    \/ \E desc \in Descriptions, amount \in Amounts,
          payer \in Range(Roster) \cup {NoPayer} : addExpense(desc, amount, payer)
    \/ \E n \in 1..MaxExpenses : confirmRemoveExpense(n)

Spec == Init /\ [][Next]_vars

----------------------------------------------------------------------------
(* Specification SpecSms: the SMS mock server, sms-server.js, over the     *)
(* data of loadAppData and the log file of sms-mock.js.  Phones 1, 2 and 3 *)
(* stand for '+15551234567', '+15551234568' and '+15551234569'; a request  *)
(* field that is absent is the phone 0 or the empty string.                *)

\* sms-server.js lines 22-80.
loadAppData ==
    [users |-> <<[id |-> "usr_1", phone |-> 1, name |-> "Alice"],
                 [id |-> "usr_2", phone |-> 2, name |-> "Bob"],
                 [id |-> "usr_3", phone |-> 3, name |-> "Charlie"]>>,
     groups |-> <<[id |-> "grp_1", name |-> "Trip to SF"],
                  [id |-> "grp_2", name |-> "Dinner Club"]>>,
     membersByGroupId |->
        [grp_1 |-> <<[id |-> "mem_1", name |-> "Alice", phone |-> 1],
                     [id |-> "mem_2", name |-> "Bob", phone |-> 2],
                     [id |-> "mem_3", name |-> "Charlie", phone |-> 3]>>,
         grp_2 |-> <<[id |-> "mem_4", name |-> "Alice", phone |-> 1],
                     [id |-> "mem_5", name |-> "Bob", phone |-> 2]>>],
     expensesByGroupId |->
        [grp_1 |-> <<[id |-> "exp_1", description |-> "Hotel room",
                      amountCents |-> 30000, payerPhone |-> 1,
                      participants |-> <<1, 2, 3>>],
                     [id |-> "exp_2", description |-> "Dinner at restaurant",
                      amountCents |-> 12000, payerPhone |-> 2,
                      participants |-> <<1, 2, 3>>]>>,
         grp_2 |-> <<[id |-> "exp_3", description |-> "Pizza night",
                      amountCents |-> 4500, payerPhone |-> 1,
                      participants |-> <<1, 2>>]>>]]

\* obj[key] || []
OrEmpty(obj, key) == IF key \in DOMAIN obj THEN obj[key] ELSE <<>>

\* A lookup that falls back to the first element when no id matches.
FindByIdOrFirst(array, id) ==
    LET found == SelectSeq(array, LAMBDA x : x.id = id)
    IN  IF found = <<>> /\ array # <<>> THEN <<array[1]>> ELSE found

\* array.find(x => x.id === id): the matches, the first of which is found.
FindById(array, id) == SelectSeq(array, LAMBDA x : x.id = id)

\* The balance object of calculateSettlements, sms-server.js lines 84-96:
\* the members start at 0, then the expenses are folded as in App.tsx.
serverBalances(mem, xs) ==
    Balances([n \in 1..Len(mem) |-> mem[n].phone], <<>>, xs)

\* sms-server.js lines 83-122 (and sms-mock.js lines 279-318).
calculateSettlements(mem, xs) == Settlements(serverBalances(mem, xs))

\* sms-mock.js lines 39-41: `$${(cents / 100).toFixed(2)}`, for cents >= 0.
formatCurrency(cents) == [dollars |-> cents \div 100, cents |-> cents % 100]

\* members.find(m => m.phone === phone)?.name || 'Unknown'
NameOf(mem, phone) ==
    LET found == SelectSeq(mem, LAMBDA m : m.phone = phone)
    IN  IF found = <<>> THEN "Unknown" ELSE found[1].name

\* The payment lines of a message: "from -> to: amount".
PaymentLines(list, mem) ==
    [n \in 1..Len(list) |->
        [from |-> NameOf(mem, list[n].from), to |-> NameOf(mem, list[n].to),
         amount |-> formatCurrency(list[n].amount)]]

\* sms-mock.js lines 121-160.
generateGroupDetailsSMS(group, mem, xs, list) ==
    [kind |-> "details", group |-> group.name,
     members |-> [n \in 1..Len(mem) |-> mem[n].name],
     total |-> formatCurrency(SumSeq([n \in 1..Len(xs) |-> xs[n].amountCents])),
     payments |-> PaymentLines(list, mem)]

\* sms-mock.js lines 163-175.
generateNewExpenseSMS(group, x, mem) ==
    [kind |-> "expense", group |-> group.name, description |-> x.description,
     amount |-> formatCurrency(x.amountCents),
     paidBy |-> NameOf(mem, x.payerPhone),
     share |-> formatCurrency(x.amountCents \div Len(x.participants))]

\* sms-mock.js lines 178-196.
generateSettlementUpdateSMS(group, list, mem) ==
    [kind |-> "settlement", group |-> group.name,
     payments |-> PaymentLines(list, mem)]

\* The bound on the messages the log holds.
MaxLog == 2

RequestPhones == {0, 3, 4}
RequestGroups == {"", "grp_1", "grp_2", "grp_9"}
RequestExpenses == {"", "exp_1", "exp_3", "exp_9"}

Reply(status, error, sms) == [status |-> status, error |-> error, sms |-> sms]

SmsInit ==
    /\ smsLog = <<>>
    /\ response = Reply(0, "", <<>>)
    /\ pc = "listening"
    /\ SettleIdle
    /\ ShareIdle
    /\ GroupIdle
    /\ PhoneIdle
    /\ NotifyIdle
    /\ AppIdle

\* sms-mock.js lines 16-25: the records of the log file, or the empty list
\* when the file cannot be read or parsed (the catch only prints the error).
loadSMSLog(loaded) == IF loaded THEN smsLog ELSE <<>>

\* sms-mock.js lines 53-76, called from a route: the message joins the list
\* that loadSMSLog returned and the list is written back; the result is the
\* log file afterwards and the route's answer: the message, or the 500 of
\* the route's catch when the write fails.
sendSMS(phone, message, loaded, saved) ==
    LET log == loadSMSLog(loaded)
        sms == [phone |-> phone, message |-> message, status |-> "sent"]
    IN  IF saved
        THEN [log |-> Append(log, sms), response |-> Reply(200, "", <<sms>>)]
        ELSE [log |-> smsLog, response |-> Reply(500, "Failed to send SMS", <<>>)]

\* A route that answers without calling sendSMS.
Refuse(status, error) == [log |-> smsLog, response |-> Reply(status, error, <<>>)]

\* sms-server.js lines 127-153: the handler's outcome.
groupDetailsRoute(phone, groupId, loaded, saved) ==
    IF phone = 0 \/ groupId = ""
    THEN Refuse(400, "Phone and groupId are required")
    ELSE LET appData == loadAppData
             group == FindById(appData.groups, groupId)
             mem == OrEmpty(appData.membersByGroupId, groupId)
             xs == OrEmpty(appData.expensesByGroupId, groupId)
             list == calculateSettlements(mem, xs)
         IN  IF group = <<>>
             THEN Refuse(404, "Group not found")
             ELSE sendSMS(phone, generateGroupDetailsSMS(group[1], mem, xs, list),
                          loaded, saved)

\* sms-server.js lines 156-185: the handler's outcome.
newExpenseRoute(phone, groupId, expenseId, loaded, saved) ==
    IF phone = 0 \/ groupId = "" \/ expenseId = ""
    THEN Refuse(400, "Phone, groupId, and expenseId are required")
    ELSE LET appData == loadAppData
             group == FindById(appData.groups, groupId)
             mem == OrEmpty(appData.membersByGroupId, groupId)
             xs == OrEmpty(appData.expensesByGroupId, groupId)
             expense == FindById(xs, expenseId)
         IN  IF group = <<>>
             THEN Refuse(404, "Group not found")
             ELSE IF expense = <<>>
                  THEN Refuse(404, "Expense not found")
                  ELSE sendSMS(phone, generateNewExpenseSMS(group[1], expense[1], mem),
                               loaded, saved)

\* sms-server.js lines 188-214: the handler's outcome.
settlementUpdateRoute(phone, groupId, loaded, saved) ==
    IF phone = 0 \/ groupId = ""
    THEN Refuse(400, "Phone and groupId are required")
    ELSE LET appData == loadAppData
             group == FindById(appData.groups, groupId)
             mem == OrEmpty(appData.membersByGroupId, groupId)
             xs == OrEmpty(appData.expensesByGroupId, groupId)
             list == calculateSettlements(mem, xs)
         IN  IF group = <<>>
             THEN Refuse(404, "Group not found")
             ELSE sendSMS(phone, generateSettlementUpdateSMS(group[1], list, mem),
                          loaded, saved)

\* The server handles one request: the log file and the answer become the
\* handler's outcome (the log is kept within MaxLog records).
Answer(outcome) ==
    /\ Len(outcome.log) <= MaxLog
    /\ smsLog' = outcome.log
    /\ response' = outcome.response
    /\ UNCHANGED <<pc, settleVars, shareVars, groupVars, phoneVars, appVars, notifyVars>>

\* POST /api/sms/send-group-details
sendGroupDetails(phone, groupId, loaded, saved) ==
    Answer(groupDetailsRoute(phone, groupId, loaded, saved))

\* POST /api/sms/send-new-expense
sendNewExpense(phone, groupId, expenseId, loaded, saved) ==
    Answer(newExpenseRoute(phone, groupId, expenseId, loaded, saved))

\* POST /api/sms/send-settlement-update
sendSettlementUpdate(phone, groupId, loaded, saved) ==
    Answer(settlementUpdateRoute(phone, groupId, loaded, saved))

\* sms-server.js lines 217-225.
getHistory(loaded) ==
    /\ response' = Reply(200, "", loadSMSLog(loaded))
    /\ UNCHANGED <<smsLog, pc, settleVars, shareVars, groupVars, phoneVars, appVars,
                  notifyVars>>

\* sms-server.js lines 228-236.
clearHistory(saved) ==
    /\ IF saved
       THEN smsLog' = <<>> /\ response' = Reply(200, "SMS history cleared", <<>>)
       ELSE UNCHANGED smsLog /\ response' = Reply(500, "Failed to clear SMS history", <<>>)
    /\ UNCHANGED <<pc, settleVars, shareVars, groupVars, phoneVars, appVars, notifyVars>>

SmsNext ==
    \/ \E phone \in RequestPhones, groupId \in RequestGroups,
          loaded \in BOOLEAN, saved \in BOOLEAN :
         sendGroupDetails(phone, groupId, loaded, saved)
    \/ \E phone \in RequestPhones, groupId \in RequestGroups,
          expenseId \in RequestExpenses, loaded \in BOOLEAN, saved \in BOOLEAN :
         sendNewExpense(phone, groupId, expenseId, loaded, saved)
    \/ \E phone \in RequestPhones, groupId \in RequestGroups,
          loaded \in BOOLEAN, saved \in BOOLEAN :
         sendSettlementUpdate(phone, groupId, loaded, saved)
    \/ \E loaded \in BOOLEAN : getHistory(loaded)
    \/ \E saved \in BOOLEAN : clearHistory(saved)

SpecSms == SmsInit /\ [][SmsNext]_vars

----------------------------------------------------------------------------
(* Claims about the settlement minimizer *)

\* What a payment list leaves of p's balance: a payment raises the payer's
\* (negative) balance and lowers the receiver's (positive) balance.
RECURSIVE Paid(_, _)
Paid(list, p) ==
    IF list = <<>> THEN 0
    ELSE (IF list[1].from = p THEN list[1].amount ELSE 0) + Paid(Tail(list), p)

RECURSIVE Received(_, _)
Received(list, p) ==
    IF list = <<>> THEN 0
    ELSE (IF list[1].to = p THEN list[1].amount ELSE 0) + Received(Tail(list), p)

Residual(bm, list, p) == Get(bm, p) + Paid(list, p) - Received(list, p)

NegativeKeys(bm) == {p \in DOMAIN bm.val : bm.val[p] < 0}
PositiveKeys(bm) == {p \in DOMAIN bm.val : bm.val[p] > 0}

\* C2 (as claimed): Settlement correctness: once the minimizer has returned,
\* replaying its payments leaves every participant's balance within [-1, 1]
\* of zero.
C2_ReplayWithinOne ==
    pc = "done" =>
        \A p \in Range(Keys(balances)) : Abs(Residual(balances, tx, p)) <= 1

\* Whether some set of fewer than k debtor-to-creditor payments (at most one
\* per pair, each of a positive amount) zeroes every balance of the map exactly.
LargestBalance(bm) ==
    IF bm.keys = <<>> THEN 0
    ELSE CHOOSE m \in {Abs(bm.val[p]) : p \in DOMAIN bm.val} :
            \A p \in DOMAIN bm.val : Abs(bm.val[p]) <= m

SettledBy(bm, S, amt) ==
    \A p \in Range(Keys(bm)) :
        Get(bm, p)
          + SumSeq([n \in 1..Len(S) |-> IF S[n][1] = p THEN amt[n] ELSE 0])
          - SumSeq([n \in 1..Len(S) |-> IF S[n][2] = p THEN amt[n] ELSE 0]) = 0

RECURSIVE SetToSeq(_)
SetToSeq(S) ==
    IF S = {} THEN <<>>
    ELSE LET x == CHOOSE y \in S : TRUE IN <<x>> \o SetToSeq(S \ {x})

FewerPaymentsSettle(bm, k) ==
    \E P \in SUBSET (NegativeKeys(bm) \X PositiveKeys(bm)) :
        /\ Cardinality(P) < k
        /\ LET S == SetToSeq(P) IN
            \E amt \in [1..Len(S) -> 1..LargestBalance(bm)] : SettledBy(bm, S, amt)

\* C3 (as claimed): Minimality: no list of debtor-to-creditor payments that
\* settles the balances has fewer payments than the list the minimizer
\* returns.
C3_Minimal ==
    pc = "done" => ~FewerPaymentsSettle(balances, Len(tx))

\* C3 (amended): for a balance map with at most four participants of
\* non-zero balance, no list of debtor-to-creditor payments that zeroes
\* every balance has fewer payments than the list the minimizer returns.
C3_MinimalUpToFour ==
    (pc = "done" /\ Cardinality(NegativeKeys(balances) \cup PositiveKeys(balances)) <= 4)
        => ~FewerPaymentsSettle(balances, Len(tx))

\* C3 witness: the minimizer returned three payments for two debtors and two
\* creditors.
C3_Witness ==
    /\ pc = "done"
    /\ Cardinality(NegativeKeys(balances)) = 2
    /\ Cardinality(PositiveKeys(balances)) = 2
    /\ Len(tx) = 3

\* C4 (as claimed): Edge bound: the number of payments returned is at most
\* debtors + creditors - 1, also when there is no debtor and no creditor.
C4_EdgeBound ==
    pc = "done" =>
        Len(tx) <= Cardinality(NegativeKeys(balances))
                     + Cardinality(PositiveKeys(balances)) - 1

\* C4 (amended): the number of payments emitted is at most
\* debtors + creditors - 1 when some balance is non-zero, and is 0 when
\* every balance is zero.
C4_EdgeBoundOrEmpty ==
    LET n == Cardinality(NegativeKeys(balances)) + Cardinality(PositiveKeys(balances))
    IN  Len(tx) <= (IF n = 0 THEN 0 ELSE n - 1)

\* C4 witness: the minimizer returned exactly debtors + creditors - 1
\* payments, four of them.
C4_Witness ==
    /\ pc = "done"
    /\ Len(tx) = 4
    /\ Cardinality(NegativeKeys(balances)) + Cardinality(PositiveKeys(balances)) = 5

----------------------------------------------------------------------------
(* Claims about the balance engine *)

\* The phones an expense list names as payer or as participant.
Named(xs) ==
    {xs[n].payerPhone : n \in 1..Len(xs)}
        \cup UNION {Range(xs[n].participants) : n \in 1..Len(xs)}

\* What expense x adds to the balance of p by the rule of the claims: the
\* amount if p paid, less floor(A/n) and one more cent at each of the first
\* A - n*floor(A/n) positions p holds in the participant list.
NetOf(x, p) ==
    LET A == x.amountCents
        n == Len(x.participants)
        base == A \div n
        extra == A - n * base
    IN  (IF x.payerPhone = p THEN A ELSE 0)
          - SumSeq([q \in 1..n |->
                      IF x.participants[q] = p
                      THEN base + (IF q - 1 < extra THEN 1 ELSE 0) ELSE 0])

\* C1: Conservation: after every addition or removal of an expense, a member
\* or a non-member, the balances of the group sum to exactly 0.
C1_Conservation == SumValues(GroupBalances) = 0

\* C1 witness: two expenses, one of them with a remainder to hand out, and
\* somebody owes.
C1_Witness ==
    /\ Len(expenses) >= 2
    /\ \E n \in 1..Len(expenses) : RemainderOf(expenses[n]) > 0
    /\ LET gb == GroupBalances IN \E p \in Phones : Get(gb, p) < 0

\* C5: Order independence: every permutation of the expense list gives every
\* phone the same balance (and the same phones an entry).
C5_OrderIndependent ==
    LET values == GroupBalances.val IN
    \A perm \in Permutations(1..Len(expenses)) :
        Balances(members, nonMembers,
                 [q \in 1..Len(expenses) |-> expenses[perm[q]]]).val = values

\* C5 witness: two expenses that differ in payer and in participant list,
\* each with a remainder.
C5_Witness ==
    /\ Len(expenses) >= 2
    /\ expenses[1].payerPhone # expenses[2].payerPhone
    /\ expenses[1].participants # expenses[2].participants
    /\ RemainderOf(expenses[1]) > 0
    /\ RemainderOf(expenses[2]) > 0

\* C6: Remainder distribution: the forEach iteration at 0-based position q
\* takes floor(A/n)+1 off its participant when q < A - n*floor(A/n) and
\* floor(A/n) otherwise; when the expense is folded the shares taken sum to
\* A and the payer has been credited A.
C6_RemainderDistribution ==
    LET A == e.amountCents
        n == Len(e.participants)
        base == A \div n
        extra == A - n * base
    IN  /\ \A q \in 1..Len(debited) :
              debited[q] = base + (IF q - 1 < extra THEN 1 ELSE 0)
        /\ pc = "done" =>
              /\ Len(debited) = n
              /\ SumSeq(debited) = A
              /\ \A p \in 1..SharePeople : Get(map, p) = NetOf(e, p)
              /\ Get(map, e.payerPhone)
                    + SumSeq([q \in 1..n |-> IF e.participants[q] = e.payerPhone
                                             THEN debited[q] ELSE 0]) = A

\* C6 witness: 7 cents split three ways took 3, 2, 2 in list order.
C6_Witness ==
    /\ pc = "done"
    /\ e.amountCents = 7
    /\ debited = <<3, 2, 2>>

\* C7: Universe of the balance map: its keys are exactly the members, the
\* non-members, the payers and the participants; a member or non-member no
\* expense names is there with 0; with no member, no non-member and no
\* expense the map is empty.
C7_Universe ==
    LET gb == GroupBalances IN
    /\ Range(Keys(gb)) = Range(Roster) \cup Named(expenses)
    /\ Len(Keys(gb)) = Cardinality(Range(Keys(gb)))
    /\ \A p \in Range(Roster) \ Named(expenses) : HasKey(gb, p) /\ Get(gb, p) = 0
    /\ (Roster = <<>> /\ expenses = <<>>) => gb = EmptyMap

\* C7 witness: a group with an expense and a member added after it, whom no
\* expense names.
C7_Witness ==
    /\ Len(expenses) >= 1
    /\ Range(Roster) \ Named(expenses) # {}
    /\ Named(expenses) \ Range(Roster) # {}

\* C8: a phone that is no member and no non-member (removed after the
\* expense was recorded) has an entry holding the credits and debits of
\* every expense that names it, counted from 0.
C8_RemovedKeepEntry ==
    LET gb == GroupBalances IN
    \A p \in Named(expenses) \ Range(Roster) :
        /\ HasKey(gb, p)
        /\ Get(gb, p) = SumSeq([n \in 1..Len(expenses) |-> NetOf(expenses[n], p)])

\* C8 witness: a removed phone paid one expense and took part in two.
C8_Witness ==
    \E p \in Phones \ Range(Roster) :
        /\ Len(expenses) >= 2
        /\ expenses[1].payerPhone = p
        /\ expenses[2].payerPhone # p
        /\ p \in Range(expenses[1].participants)
        /\ p \in Range(expenses[2].participants)
        /\ Get(GroupBalances, p) # 0

\* C10: the server's data for the group "Trip to SF" is the canonical
\* vector (Alice, Bob, Charlie; 30000 paid by Alice and 12000 paid by Bob,
\* each split among all three).  Its balances are Alice +16000, Bob -2000,
\* Charlie -14000, its settlement list is Charlie pays Alice 14000 and then
\* Bob pays Alice 2000, and every message about the group's payments that
\* the server records lists exactly these two payments in this order.
C10_CanonicalVector ==
    LET mem == loadAppData.membersByGroupId["grp_1"]
        xs == loadAppData.expensesByGroupId["grp_1"]
    IN  \A n \in 1..Len(smsLog) :
            LET message == smsLog[n].message IN
            (message.group = "Trip to SF" /\ message.kind \in {"details", "settlement"}) =>
                /\ serverBalances(mem, xs).val = (1 :> 16000) @@ (2 :> -2000) @@ (3 :> -14000)
                /\ calculateSettlements(mem, xs) =
                       <<[from |-> 3, to |-> 1, amount |-> 14000],
                         [from |-> 2, to |-> 1, amount |-> 2000]>>
                /\ message.payments =
                       <<[from |-> "Charlie", to |-> "Alice",
                          amount |-> [dollars |-> 140, cents |-> 0]],
                         [from |-> "Bob", to |-> "Alice",
                          amount |-> [dollars |-> 20, cents |-> 0]]>>

\* C10 witness: the server answered 200 and the log holds both a details
\* message and a settlement update for "Trip to SF".
C10_Witness ==
    /\ response.status = 200
    /\ \E n \in 1..Len(smsLog) :
          smsLog[n].message.group = "Trip to SF" /\ smsLog[n].message.kind = "details"
    /\ \E n \in 1..Len(smsLog) :
          smsLog[n].message.group = "Trip to SF" /\ smsLog[n].message.kind = "settlement"

----------------------------------------------------------------------------
(* Further claims about the group of the React app *)

\* C11: when the group's only participant is one member (no invited
\* non-member) and every expense was paid by that member with that member
\* as its only participant, the member's balance is 0, no other phone has
\* an entry, and the settlement list is empty.
C11_SingleMemberNetsToZero ==
    (/\ Len(members) = 1
     /\ nonMembers = <<>>
     /\ \A n \in 1..Len(expenses) :
           /\ expenses[n].payerPhone = members[1]
           /\ expenses[n].participants = <<members[1]>>)
    => /\ GroupBalances = [keys |-> <<members[1]>>, val |-> (members[1] :> 0)]
       /\ GroupSettlements = <<>>

\* C11 witness: a single member who paid two expenses alone.
C11_Witness ==
    /\ Len(members) = 1
    /\ nonMembers = <<>>
    /\ Len(expenses) = 2
    /\ \A n \in 1..2 :
          /\ expenses[n].payerPhone = members[1]
          /\ expenses[n].participants = <<members[1]>>

----------------------------------------------------------------------------
(* Specification SpecPhone: normalizePhone, App.tsx line 72, applied to a  *)
(* string and then to its own result.  A string is the sequence of its     *)
(* characters; "1" stands for a digit, " " for a character that is neither *)
(* a digit nor '+' (white space included).                                 *)

\* The bound on the length of the string entered.
MaxPhoneLen == 10

PhoneChars == {"1", "+", " "}

\* String.prototype.trim: white space leaves both ends.
RECURSIVE TrimStart(_)
TrimStart(str) ==
    IF str # <<>> /\ str[1] = " " THEN TrimStart(Tail(str)) ELSE str

RECURSIVE TrimEnd(_)
TrimEnd(str) ==
    IF str # <<>> /\ str[Len(str)] = " "
    THEN TrimEnd(SubSeq(str, 1, Len(str) - 1)) ELSE str

Trim(str) == TrimEnd(TrimStart(str))

\* replace(/[^\d+]/g, ''): only digits and '+' stay.
KeepDigitsAndPlus(str) == SelectSeq(str, LAMBDA c : c \in {"1", "+"})

\* replace(/[^\d]/g, ''): only digits stay.
KeepDigits(str) == SelectSeq(str, LAMBDA c : c = "1")

\* d.startsWith('+')
StartsWithPlus(str) == str # <<>> /\ str[1] = "+"

\* A normalization that drops every '+' before it looks at the length.
normalizePhoneDigitsOnly(str) ==
    LET d == KeepDigits(Trim(str))
    IN  IF Len(d) = 10 THEN <<"+", "1">> \o d ELSE d

\* Line 72.
normalizePhone(str) ==
    LET d == KeepDigitsAndPlus(Trim(str))
    IN  IF StartsWithPlus(d) THEN d
        ELSE IF Len(d) = 10 THEN <<"+", "1">> \o d
        ELSE d

PhoneInit ==
    /\ \E n \in 0..MaxPhoneLen : input \in [1..n -> PhoneChars]
    /\ normalized = <<>>
    /\ renormalized = <<>>
    /\ pc = "entered"
    /\ SettleIdle
    /\ ShareIdle
    /\ GroupIdle
    /\ SmsIdle
    /\ NotifyIdle
    /\ AppIdle

\* const phone = normalizePhone(memberPhone) (lines 253, 294, 337, 482).
NormalizeInput ==
    /\ pc = "entered"
    /\ normalized' = normalizePhone(input)
    /\ pc' = "normalized"
    /\ UNCHANGED <<input, renormalized, settleVars, shareVars, groupVars, smsVars,
                  notifyVars, appVars>>

\* isValidPhone(phone) normalizes its argument again (line 73).
NormalizeAgain ==
    /\ pc = "normalized"
    /\ renormalized' = normalizePhone(normalized)
    /\ pc' = "renormalized"
    /\ UNCHANGED <<input, normalized, settleVars, shareVars, groupVars, smsVars,
                  notifyVars, appVars>>

PhoneNext == NormalizeInput \/ NormalizeAgain

SpecPhone == PhoneInit /\ [][PhoneNext]_vars

\* C12: normalizePhone is idempotent: normalizing the result of a
\* normalization gives that result again, for every string entered.
C12_NormalizeIdempotent ==
    pc = "renormalized" => renormalized = normalized

\* C12 witness: ten characters that are digits except for a '+' in a
\* non-leading position were entered; the result got the prefix "+1" and
\* was normalized again.
C12_Witness ==
    /\ pc = "renormalized"
    /\ Len(input) = 10
    /\ input[1] = "1"
    /\ \E n \in 2..10 : input[n] = "+"
    /\ \A n \in 1..10 : input[n] # " "
    /\ normalized = <<"+", "1">> \o input

----------------------------------------------------------------------------
(* Specification SpecSettleAny: the minimizer, step by step, on any        *)
(* integer balance map, whether or not its values sum to zero              *)

\* The bound on the phones of the map and the values drawn.
AnyPeople == 4

AnyValues == -3..3

SettleAnyInit ==
    /\ \E n \in 0..AnyPeople :
         \E f \in [1..n -> AnyValues] :
            balances = [keys |-> [q \in 1..n |-> q], val |-> f]
    /\ debtors = <<>>
    /\ creditors = <<>>
    /\ i = 1
    /\ j = 1
    /\ tx = <<>>
    /\ pc = "start"
    /\ ShareIdle
    /\ GroupIdle
    /\ SmsIdle
    /\ PhoneIdle
    /\ NotifyIdle
    /\ AppIdle

SpecSettleAny == SettleAnyInit /\ [][SettleNext]_vars

\* C13: every payment the minimizer has emitted, at every step of its loop
\* and on every integer balance map, has an amount of at least 1.
C13_PositiveAmounts ==
    \A n \in 1..Len(tx) : tx[n].amount >= 1

\* C13 witness: the minimizer returned two payments for a map that does
\* not sum to zero and holds a settled (zero) entry.
C13_Witness ==
    /\ pc = "done"
    /\ Len(tx) = 2
    /\ SumValues(balances) # 0
    /\ \E p \in DOMAIN balances.val : balances.val[p] = 0

----------------------------------------------------------------------------
(* Specification SpecShareLoose: the balance engine, step by step, on one  *)
(* expense whose participant list may be empty (an expense list handed to  *)
(* the engine from outside the form of addExpense, as calculateSettlements *)
(* in sms-server.js receives it).  The code has no throw and no check of   *)
(* the list: the steps are those of SpecShare.                             *)

\* The bounds: the phones and the largest amount drawn.
LoosePeople == 2
LooseMaxAmount == 3

ShareLooseInit ==
    /\ \E n \in 0..LoosePeople : members = [q \in 1..n |-> q]
    /\ nonMembers = <<>>
    /\ \E a \in 1..LooseMaxAmount, p \in 1..LoosePeople,
          ps \in NoDupSeqs(1..LoosePeople) :
         /\ e = [amountCents |-> a, payerPhone |-> p, participants |-> ps]
         /\ expenses = <<[amountCents |-> a, payerPhone |-> p, participants |-> ps]>>
    /\ users = {}
    /\ map = EmptyMap
    /\ remainder = 0
    /\ idx = 0
    /\ debited = <<>>
    /\ pc = "start"
    /\ SettleIdle
    /\ SmsIdle
    /\ PhoneIdle
    /\ NotifyIdle
    /\ AppIdle

SpecShareLoose == ShareLooseInit /\ [][ShareNext]_vars

\* C14: the balance engine returns no balance map for an expense whose
\* participant list is empty (it would surface an error instead).
C14_EmptyParticipantsRejected ==
    pc = "done" => e.participants # <<>>

----------------------------------------------------------------------------
(* Specification SpecNotify: the React app of one group within one page    *)
(* session, with what Spec leaves out: localStorage (saveState after every *)
(* change of the state, line 229), the SMS requests of sendSMS (lines      *)
(* 88-104), notifyNonMembers (lines 138-183), the clock and the SMS        *)
(* server.  Phone 1 is a user and created the group; phones 2 and 3 belong *)
(* to no user.  The group's id comes from generateId (line 70) and is not  *)
(* one of loadAppData's.                                                   *)

\* Line 146: 5 * 60 * 1000 ms, in minutes.
Cooldown == 5

\* The bounds: the minutes that pass, the expenses added, the requests that
\* nothing awaits in flight.
MaxElapsed == 2
MaxNotifyExpenses == 2
MaxInFlight == 1

NotifyPhones == 1..3
AppGroupId == "grp_app"
AppExpenseId == "exp_app"

\* The React state of the group as saveState writes it.  A non-member
\* record of the React state never holds lastNotifiedAt: only
\* notifyNonMembers writes it, and it writes to localStorage.
MemoryState(mem, non, xs) ==
    [members |-> mem,
     nonMembers |-> [n \in 1..Len(non) |-> [phone |-> non[n], lastNotifiedAt |-> 0]],
     expenses |-> xs]

\* Lines 144-146: now - (nonMember.lastNotifiedAt || 0) < 5 * 60 * 1000.
Throttled(nm, t) == t - nm.lastNotifiedAt < Cooldown

\* The loop of line 142 from position `from` on: the first non-member that
\* is not skipped, 0 when the loop runs out.
NextToNotify(list, from, t) ==
    LET open == {n \in from..Len(list) : ~Throttled(list[n], t)}
    IN  IF open = {} THEN 0 ELSE CHOOSE n \in open : \A m \in open : n <= m

\* The routes of sms-server.js (lines 127, 156, 188).
Routes == {"group-details", "new-expense", "settlement-update"}

\* The status the server answers a POST /api/sms/send-<type> with (lines
\* 127-214; a path without a route gets the framework's 404).
RouteStatus(type, phone, groupId, expenseId) ==
    IF type \notin Routes THEN 404
    ELSE IF phone = 0 \/ groupId = "" \/ (type = "new-expense" /\ expenseId = "")
    THEN 400
    ELSE IF FindById(loadAppData.groups, groupId) = <<>> THEN 404
    ELSE IF type = "new-expense"
            /\ FindById(OrEmpty(loadAppData.expensesByGroupId, groupId), expenseId) = <<>>
    THEN 404
    ELSE 200

\* The message of a request the server accepts.
RouteMessage(type, groupId, expenseId) ==
    LET group == FindById(loadAppData.groups, groupId)[1]
        mem == OrEmpty(loadAppData.membersByGroupId, groupId)
        xs == OrEmpty(loadAppData.expensesByGroupId, groupId)
    IN  IF type = "new-expense"
        THEN generateNewExpenseSMS(group, FindById(xs, expenseId)[1], mem)
        ELSE IF type = "group-details"
        THEN generateGroupDetailsSMS(group, mem, xs, calculateSettlements(mem, xs))
        ELSE generateSettlementUpdateSMS(group, calculateSettlements(mem, xs), mem)

\* The server receives a request: the log after it.
LogAfter(type, phone, groupId, expenseId) ==
    IF RouteStatus(type, phone, groupId, expenseId) = 200
    THEN Append(smsLog, [phone |-> phone,
                         message |-> RouteMessage(type, groupId, expenseId),
                         status |-> "sent"])
    ELSE smsLog

ReplyAfter(type, phone, groupId, expenseId) ==
    LET status == RouteStatus(type, phone, groupId, expenseId)
    IN  Reply(status, IF status = 200 THEN "" ELSE "rejected", <<>>)

NotifyInit ==
    /\ users = {1}
    /\ members = <<1>>
    /\ nonMembers = <<>>
    /\ expenses = <<>>
    /\ now = Cooldown
    /\ stored = MemoryState(<<1>>, <<>>, <<>>)
    /\ requests = <<>>
    /\ sent = <<>>
    /\ notifiers = <<>>
    /\ smsLog = <<>>
    /\ response = Reply(0, "", <<>>)
    /\ pc = "group"
    /\ SettleIdle
    /\ ShareIdle
    /\ PhoneIdle
    /\ AppIdle

\* Time passes.
Tick ==
    /\ now < Cooldown + MaxElapsed
    /\ now' = now + 1
    /\ UNCHANGED <<stored, requests, sent, notifiers, pc, groupVars, smsVars,
                  settleVars, shareVars, phoneVars, appVars>>

\* Lines 480-531 and the effect of line 229: a phone already in the group
\* changes nothing (the updater returns prev, nothing is saved); a user's
\* phone becomes a member; any other phone becomes an invited non-member
\* and sendSMS('group-invitation') is called without await.
addMemberAndInvite(phone) ==
    /\ IF phone \in Range(members) \/ phone \in Range(nonMembers)
       THEN UNCHANGED <<members, nonMembers, stored, requests>>
       ELSE IF phone \in users
            THEN /\ members' = Append(members, phone)
                 /\ stored' = MemoryState(members', nonMembers, expenses)
                 /\ UNCHANGED <<nonMembers, requests>>
            ELSE /\ Len(requests) < MaxInFlight
                 /\ nonMembers' = Append(nonMembers, phone)
                 /\ requests' = Append(requests,
                        [type |-> "group-invitation", phone |-> phone,
                         groupId |-> AppGroupId, expenseId |-> ""])
                 /\ stored' = MemoryState(members, nonMembers', expenses)
                 /\ UNCHANGED members
    /\ UNCHANGED <<now, sent, notifiers, users, expenses, pc, smsVars,
                  settleVars, shareVars, phoneVars, appVars>>

\* Lines 554-564 and the effect of line 229.
removeNonMemberAndSave(phone) ==
    /\ phone \in Range(nonMembers)
    /\ nonMembers' = Without(nonMembers, phone)
    /\ stored' = MemoryState(members, nonMembers', expenses)
    /\ UNCHANGED <<now, requests, sent, notifiers, users, members, expenses,
                  pc, smsVars, settleVars, shareVars, phoneVars, appVars>>

\* Lines 426-442 with a description, an amount of 5 cents and the default
\* payer (line 399).  The expense is known to the call by its id (lines 436,
\* 441), here its position in the list.  setState is called, then
\* notifyNonMembers runs up to its first await: it loads the state from
\* localStorage (line 139, before the effect of line 229 has saved the new
\* state) and calls sendSMS for the first non-member it does not skip.
\* Then the effect saves the state.
addExpenseAndNotify ==
    /\ Len(members) # 0
    /\ Len(expenses) < MaxNotifyExpenses
    /\ expenses' = Append(expenses,
          [amountCents |-> 5, payerPhone |-> Roster[1], participants |-> Roster])
    /\ LET state == stored
           k == NextToNotify(state.nonMembers, 1, now)
       IN  IF k = 0
           THEN UNCHANGED <<sent, notifiers>>
           ELSE /\ sent' = Append(sent, [phone |-> state.nonMembers[k].phone, at |-> now,
                                         expense |-> Len(expenses')])
                /\ notifiers' = Append(notifiers, [state |-> state, k |-> k, at |-> now,
                                                  expense |-> Len(expenses')])
    /\ stored' = MemoryState(members, nonMembers, expenses')
    /\ UNCHANGED <<now, requests, users, members, nonMembers, pc, smsVars,
                  settleVars, shareVars, phoneVars, appVars>>

\* The fetch of a waiting notifyNonMembers is answered (or fails: sendSMS
\* catches it) and the call goes on, lines 160-181: it saves the state it
\* loaded at its start with this non-member's lastNotifiedAt set, then
\* loops to the next non-member of that state it does not skip and calls
\* sendSMS for it, or returns.
notifyResume(n) ==
    /\ n \in 1..Len(notifiers)
    /\ LET nf == notifiers[n]
           state == nf.state
           phone == state.nonMembers[nf.k].phone
           updatedNonMembers ==
               [q \in 1..Len(state.nonMembers) |->
                   IF state.nonMembers[q].phone = phone
                   THEN [phone |-> phone, lastNotifiedAt |-> nf.at]
                   ELSE state.nonMembers[q]]
           k == NextToNotify(state.nonMembers, nf.k + 1, now)
       IN  /\ smsLog' = LogAfter("new-expense", phone, AppGroupId, AppExpenseId)
           /\ response' = ReplyAfter("new-expense", phone, AppGroupId, AppExpenseId)
           /\ stored' = [state EXCEPT !.nonMembers = updatedNonMembers]
           /\ IF k = 0
              THEN /\ notifiers' = [q \in 1..(Len(notifiers) - 1) |->
                                      IF q < n THEN notifiers[q] ELSE notifiers[q + 1]]
                   /\ UNCHANGED sent
              ELSE /\ notifiers' = [notifiers EXCEPT ![n] = [state |-> state, k |-> k, at |-> now,
                                                             expense |-> nf.expense]]
                   /\ sent' = Append(sent, [phone |-> state.nonMembers[k].phone, at |-> now,
                                            expense |-> nf.expense])
    /\ UNCHANGED <<now, requests, pc, groupVars, settleVars, shareVars,
                   phoneVars, appVars>>

\* The server receives the oldest request that nothing awaits.
serverReceive ==
    /\ requests # <<>>
    /\ LET r == requests[1] IN
        /\ smsLog' = LogAfter(r.type, r.phone, r.groupId, r.expenseId)
        /\ response' = ReplyAfter(r.type, r.phone, r.groupId, r.expenseId)
    /\ requests' = Tail(requests)
    /\ UNCHANGED <<now, stored, sent, notifiers, pc, groupVars, settleVars,
                  shareVars, phoneVars, appVars>>

NotifyNext ==
    \/ Tick
    \/ \E phone \in NotifyPhones : addMemberAndInvite(phone)
    \/ \E phone \in NotifyPhones : removeNonMemberAndSave(phone)
    \/ addExpenseAndNotify
    \/ \E n \in 1..MaxNotifyExpenses : notifyResume(n)
    \/ serverReceive

SpecNotify == NotifyInit /\ [][NotifyNext]_vars

\* C15: no non-member is sent two notifications of notifyNonMembers less
\* than five minutes apart.
C15_Throttled ==
    \A a, b \in 1..Len(sent) :
        (a < b /\ sent[a].phone = sent[b].phone) => sent[b].at - sent[a].at >= Cooldown

\* C16: every phone added as an invited non-member whose invitation request
\* the server has received has a record in the SMS log.
C16_InvitationLogged ==
    \A p \in Range(nonMembers) :
        (\A n \in 1..Len(requests) : requests[n].phone # p)
        => \E n \in 1..Len(smsLog) : smsLog[n].phone = p

\* C17: every stored expense has a non-empty participant list and an amount
\* greater than 0, and an addExpense with an empty description, an amount
\* that is no number or not positive, or no payer leaves the expenses as
\* they were.
C17_ExpenseInvariant ==
    /\ [](\A n \in 1..Len(expenses) :
            expenses[n].participants # <<>> /\ expenses[n].amountCents > 0)
    /\ [][\A desc \in Descriptions, amount \in Amounts,
             payer \in Range(Roster) \cup {NoPayer} :
             ( /\ desc = "" \/ amount.nan \/ amount.cents <= 0 \/ payer = NoPayer
               /\ addExpense(desc, amount, payer) )
             => expenses' = expenses]_vars

\* A rejected addExpense after an accepted one and a change of the roster.
C17_Witness ==
    /\ pc = "alert"
    /\ Len(expenses) = MaxExpenses - 1
    /\ nonMembers # <<>>
    /\ \E n \in 1..Len(expenses) : expenses[n].participants # Roster

\* The member records of the current group as the server's copy takes them.
MemberRecords == [n \in 1..Len(members) |-> [phone |-> members[n], name |-> "member"]]

\* C18: calculateSettlements of sms-server.js and sms-mock.js, given the
\* members and the expenses of the group, returns the settlement list the
\* React app computes for the group: the same edges in the same order.
C18_SameSettlements == calculateSettlements(MemberRecords, expenses) = GroupSettlements

-----------------------------------------------------------------------------
(* Specification SpecPure: balances, then settlements, of one render       *)

\* Lines 599-608: the balances callback has returned its map (line 596),
\* and the settlements callback, which depends on it (line 615), starts on
\* that map.
settlementsBegin ==
    /\ pc = "done"
    /\ balances = EmptyMap
    /\ balances' = map
    /\ LET st == LoopStart(map) IN
        /\ debtors' = st.debtors
        /\ creditors' = st.creditors
        /\ i' = st.i
        /\ j' = st.j
        /\ tx' = st.tx
    /\ pc' = "loop"
    /\ UNCHANGED <<shareVars, groupVars, smsVars, phoneVars, appVars, notifyVars>>

PureNext ==
    \/ BalancesBegin
    \/ BalancesCredit
    \/ BalancesDebit
    \/ BalancesReturn
    \/ settlementsBegin
    \/ SettleIterate
    \/ SettleReturn

SpecPure == ShareInit /\ [][PureNext]_vars

\* C19: computing the balances leaves the member list, the expense list and
\* every expense's participant list unchanged, and computing the settlements
\* leaves the balance map unchanged.
C19_Pure ==
    [][ /\ members' = members
        /\ nonMembers' = nonMembers
        /\ expenses' = expenses
        /\ e' = e
        /\ pc \in {"loop", "done"} => map' = map
        /\ pc = "loop" => balances' = balances ]_vars

\* Both computations have run, and the loop has decremented remaining
\* amounts twice.
C19_Witness ==
    /\ pc = "done"
    /\ Len(tx) >= 2
    /\ balances = map
    /\ e.participants # <<>>

\* The debtors and the creditors the loop has not advanced past.
WaitingDebtors == {debtors[n].phone : n \in i..Len(debtors)}
WaitingCreditors == {creditors[n].phone : n \in j..Len(creditors)}

\* What a debtor still owes and what a creditor is still owed, given the
\* payments emitted so far.
StillOwes(p) == 0 - Residual(balances, tx, p)
StillOwed(p) == Residual(balances, tx, p)

\* C20 (as claimed): Greedy choice: every payment the loop emits is from the
\* debtor with the largest remaining owed amount to the creditor with the
\* largest remaining amount, among those not yet advanced past, and its
\* amount is the minimum of those two remaining amounts.
C20_GreedyChoice ==
    [][tx' # tx =>
        LET p == tx'[Len(tx')] IN
          /\ p.from \in WaitingDebtors
          /\ \A q \in WaitingDebtors : StillOwes(p.from) >= StillOwes(q)
          /\ p.to \in WaitingCreditors
          /\ \A q \in WaitingCreditors : StillOwed(p.to) >= StillOwed(q)
          /\ p.amount = Min(StillOwes(p.from), StillOwed(p.to))]_vars

\* C20 (amended): every payment the loop emits is from the debtor whose
\* original owed amount is the largest, and to the creditor whose original
\* amount is the largest, among those not yet advanced past (a debtor or
\* creditor already paid in part stays the current one though a later one
\* may have more remaining), and its amount is the minimum of the remaining
\* amounts of the two.
C20_GreedyByOriginalAmount ==
    [][tx' # tx =>
        LET p == tx'[Len(tx')] IN
          /\ p.from \in WaitingDebtors
          /\ \A q \in WaitingDebtors : 0 - Get(balances, p.from) >= 0 - Get(balances, q)
          /\ p.to \in WaitingCreditors
          /\ \A q \in WaitingCreditors : Get(balances, p.to) >= Get(balances, q)
          /\ p.amount = Min(StillOwes(p.from), StillOwed(p.to))]_vars

\* The loop has emitted a payment and goes on with a current debtor who
\* owes less than a later one still does.
C20_Witness ==
    /\ pc = "loop"
    /\ tx # <<>>
    /\ LoopGuard([debtors |-> debtors, creditors |-> creditors, i |-> i, j |-> j, tx |-> tx])
    /\ \E n \in (i + 1)..Len(debtors) : debtors[n].amount > debtors[i].amount

\* C21: in every emitted settlement `from` has a negative balance and `to`
\* a positive one (so they differ), and a participant whose balance is 0 is
\* neither `from` nor `to` of any settlement.
C21_DirectionAndMateriality ==
    /\ \A n \in 1..Len(tx) :
         /\ HasKey(balances, tx[n].from) /\ Get(balances, tx[n].from) < 0
         /\ HasKey(balances, tx[n].to) /\ Get(balances, tx[n].to) > 0
         /\ tx[n].from # tx[n].to
    /\ \A p \in Range(Keys(balances)) :
         Get(balances, p) = 0 => \A n \in 1..Len(tx) : tx[n].from # p /\ tx[n].to # p

\* The minimizer has returned payments for a map in which somebody has a
\* balance of 0 and a debtor is left unpaid.
C21_Witness ==
    /\ pc = "done"
    /\ tx # <<>>
    /\ \E p \in Range(Keys(balances)) : Get(balances, p) = 0
    /\ i <= Len(debtors)

-----------------------------------------------------------------------------
(* Specification SpecSettleAnyFair: the minimizer on any integer balance   *)
(* map, whose loop (a synchronous computation) keeps taking its steps      *)

SpecSettleAnyFair ==
    SettleAnyInit /\ [][SettleNext]_vars /\ WF_vars(SettleIterate \/ SettleReturn)

\* C22: the matching loop terminates; every iteration advances past the
\* current debtor, the current creditor or both; and once the debtor list
\* or the creditor list is exhausted the loop emits no payment and ends.
C22_Terminates ==
    /\ (pc = "loop") ~> (pc = "done")
    /\ [][tx' # tx => (i' > i \/ j' > j)]_vars
    /\ [][(pc = "loop" /\ (i > Len(debtors) \/ j > Len(creditors)))
            => (tx' = tx /\ pc' = "done")]_vars

\* The loop has ended after two iterations with the debtors exhausted and a
\* creditor left.
C22_Witness ==
    /\ pc = "done"
    /\ Len(tx) = 2
    /\ i > Len(debtors)
    /\ j <= Len(creditors)

\* The expenses whose notifyNonMembers call ends with this step.
FinishedRuns ==
    {notifiers[n].expense : n \in 1..Len(notifiers)}
        \ {notifiers'[n].expense : n \in 1..Len(notifiers')}

\* C23: when a call of notifyNonMembers finishes, every non-member it sent
\* a notification to has, in the persisted state, lastNotifiedAt set to the
\* time of that notification.
C23_TimestampsRecorded ==
    [][\A s \in Range(sent) :
          s.expense \in FinishedRuns =>
             \E q \in 1..Len(stored'.nonMembers) :
                /\ stored'.nonMembers[q].phone = s.phone
                /\ stored'.nonMembers[q].lastNotifiedAt = s.at]_vars

\* C24: once every call of notifyNonMembers and every SMS request has
\* finished, the persisted expense list holds every expense addExpense has
\* added.
C24_NoLostExpense ==
    (notifiers = <<>> /\ requests = <<>>) =>
        \A n \in 1..Len(expenses) :
            n <= Len(stored.expenses) /\ stored.expenses[n] = expenses[n]

-----------------------------------------------------------------------------
(* Specification SpecApp: the React app with several users and groups:     *)
(* App.tsx, the handlers that change users, groups, members, the view and  *)
(* the current group, each followed by the render and its effects.  The    *)
(* expense list of a group is the empty one createGroup gives it.          *)

\* The groups generateId makes ids for, and the phones entered.
MaxGroups == 2
AppPhones == 1..2

\* An object without keys.
NoKeys == [k \in {} |-> <<>>]

\* Lines 28-32: the state of an empty localStorage.
EmptyState ==
    [users |-> {}, groups |-> <<>>, membersByGroupId |-> NoKeys,
     nonMembersByGroupId |-> NoKeys, expensesByGroupId |-> NoKeys]

\* byGroupId[g] || []
ListOf(byGroupId, g) == IF g \in DOMAIN byGroupId THEN byGroupId[g] ELSE <<>>

\* { ...byGroupId, [g]: list }
PutKey(byGroupId, g, list) ==
    [k \in DOMAIN byGroupId \cup {g} |-> IF k = g THEN list ELSE byGroupId[k]]

\* delete byGroupId[g]
DeleteKey(byGroupId, g) == [k \in DOMAIN byGroupId \ {g} |-> byGroupId[k]]

\* Lines 233-240: the groups in which the user's phone is a member or an
\* invited non-member.
myGroups(st, user) ==
    IF user = 0 THEN <<>>
    ELSE SelectSeq(st.groups,
            LAMBDA g : \/ user \in Range(ListOf(st.membersByGroupId, g))
                       \/ user \in Range(ListOf(st.nonMembersByGroupId, g)))

\* Line 632: the current group, when it exists.
HasCurrentGroup == currentGroupId # 0 /\ currentGroupId \in Range(appState.groups)

\* The render after a handler has set the state to st, me to user, the view
\* to v, the current group to cur and the step to stp, with the effect of
\* lines 242-250: a group entered that was not the last one checked is
\* checked against myGroups, and left for the home view if it is not there.
render(st, user, v, cur, stp) ==
    /\ appState' = st
    /\ me' = user
    /\ step' = stp
    /\ IF v = "group" /\ cur # 0 /\ cur # lastCheckedGroupId
       THEN /\ lastCheckedGroupId' = cur
            /\ IF cur \in Range(myGroups(st, user))
               THEN currentGroupId' = cur /\ view' = v
               ELSE currentGroupId' = 0 /\ view' = "home"
       ELSE /\ UNCHANGED lastCheckedGroupId
            /\ currentGroupId' = cur
            /\ view' = v
    /\ UNCHANGED <<pc, settleVars, shareVars, groupVars, smsVars, phoneVars,
                  notifyVars>>

AppInit ==
    /\ appState = EmptyState
    /\ me = 0
    /\ view = "home"
    /\ currentGroupId = 0
    /\ lastCheckedGroupId = 0
    /\ step = 1
    /\ generated = 0
    /\ pc = "app"
    /\ SettleIdle
    /\ ShareIdle
    /\ GroupIdle
    /\ SmsIdle
    /\ PhoneIdle
    /\ NotifyIdle

\* Lines 294-317, with a name, a valid phone, an unused email and a
\* password entered: a phone that is a user's is refused.
onSignup(phone) ==
    /\ me = 0
    /\ phone \notin appState.users
    /\ render([appState EXCEPT !.users = @ \cup {phone}], phone, view, currentGroupId, step)
    /\ UNCHANGED generated

\* Lines 252-266, with the user's password entered.
onLogin(phone) ==
    /\ me = 0
    /\ phone \in appState.users
    /\ render(appState, phone, view, currentGroupId, step)
    /\ UNCHANGED generated

\* Line 773.
logout ==
    /\ me # 0
    /\ render(appState, 0, "home", 0, step)
    /\ UNCHANGED generated

\* Line 774.
goHome ==
    /\ me # 0
    /\ render(appState, me, "home", 0, step)
    /\ UNCHANGED generated

\* Line 319, from the home view.
startWizard ==
    /\ me # 0
    /\ view = "home"
    /\ render(appState, me, "wizard", currentGroupId, 1)
    /\ UNCHANGED generated

\* Line 1001: Cancel on the first step of the wizard.
cancelWizard ==
    /\ me # 0
    /\ view = "wizard"
    /\ step = 1
    /\ render(appState, me, "home", currentGroupId, step)
    /\ UNCHANGED generated

\* Lines 320-334, with a group name entered: the group gets a new id, the
\* user as its only member and an empty expense list.
createGroup ==
    /\ me # 0
    /\ view = "wizard"
    /\ step = 1
    /\ generated < MaxGroups
    /\ generated' = generated + 1
    /\ LET gid == generated + 1 IN
        render([appState EXCEPT
                   !.groups = Append(@, gid),
                   !.membersByGroupId = PutKey(@, gid, <<me>>),
                   !.expensesByGroupId = PutKey(@, gid, <<>>)],
               me, view, gid, 2)

\* Line 1108: Back on the second step of the wizard.
wizardBack ==
    /\ me # 0
    /\ view = "wizard"
    /\ step = 2
    /\ render(appState, me, view, currentGroupId, 1)
    /\ UNCHANGED generated

\* Line 1112: Start Splitting Expenses.
wizardFinish ==
    /\ me # 0
    /\ view = "wizard"
    /\ step = 2
    /\ render(appState, me, "group", currentGroupId, 3)
    /\ UNCHANGED generated

\* Lines 908 and 927-931: a group of the home view's list is opened.
openGroup(g) ==
    /\ me # 0
    /\ view = "home"
    /\ g \in Range(myGroups(appState, me))
    /\ render(appState, me, "group", g, 3)
    /\ UNCHANGED generated

\* An updater that looks for the phone among the members only.
addMemberUpdaterMembersOnly(prev, g, phone) ==
    LET mem == ListOf(prev.membersByGroupId, g)
        non == ListOf(prev.nonMembersByGroupId, g)
    IN  IF phone \in Range(mem) THEN prev
        ELSE IF phone \in prev.users
             THEN [prev EXCEPT !.membersByGroupId = PutKey(@, g, Append(mem, phone))]
             ELSE [prev EXCEPT !.nonMembersByGroupId = PutKey(@, g, Append(non, phone))]

\* The updater of lines 340-383 and of lines 485-528: a phone already in
\* the group returns prev; a user's phone becomes a member; any other phone
\* becomes an invited non-member.
addMemberUpdater(prev, g, phone) ==
    LET mem == ListOf(prev.membersByGroupId, g)
        non == ListOf(prev.nonMembersByGroupId, g)
    IN  IF phone \in Range(mem) \/ phone \in Range(non) THEN prev
        ELSE IF phone \in prev.users
             THEN [prev EXCEPT !.membersByGroupId = PutKey(@, g, Append(mem, phone))]
             ELSE [prev EXCEPT !.nonMembersByGroupId = PutKey(@, g, Append(non, phone))]

\* Lines 335-386, with a name and a valid phone entered.
addWizardMember(phone) ==
    /\ me # 0
    /\ view = "wizard"
    /\ step = 2
    /\ currentGroupId # 0
    /\ render(addMemberUpdater(appState, currentGroupId, phone), me, view,
              currentGroupId, step)
    /\ UNCHANGED generated

\* Lines 480-531, with a name and a valid phone entered.
addMemberToCurrentGroup(phone) ==
    /\ me # 0
    /\ view = "group"
    /\ currentGroupId # 0
    /\ render(addMemberUpdater(appState, currentGroupId, phone), me, view,
              currentGroupId, step)
    /\ UNCHANGED generated

\* The member and non-member lists with their remove buttons are shown on
\* the second step of the wizard (lines 1068, 1095) and in the group view
\* (lines 1220, 1255).
ListsShown ==
    /\ me # 0
    /\ currentGroupId # 0
    /\ (view = "wizard" /\ step = 2) \/ view = "group"

\* Lines 539-552: the member chosen in the dialog leaves the current group.
confirmRemoveCurrentMember(phone) ==
    /\ ListsShown
    /\ phone \in Range(ListOf(appState.membersByGroupId, currentGroupId))
    /\ render([appState EXCEPT !.membersByGroupId =
                  PutKey(@, currentGroupId,
                         Without(ListOf(@, currentGroupId), phone))],
              me, view, currentGroupId, step)
    /\ UNCHANGED generated

\* Lines 554-564.
removeCurrentNonMember(phone) ==
    /\ ListsShown
    /\ phone \in Range(ListOf(appState.nonMembersByGroupId, currentGroupId))
    /\ render([appState EXCEPT !.nonMembersByGroupId =
                  PutKey(@, currentGroupId,
                         Without(ListOf(@, currentGroupId), phone))],
              me, view, currentGroupId, step)
    /\ UNCHANGED generated

\* Lines 455-470: Delete Group of the menu, which offers it while there is
\* a current group (line 829): the group, its member list and its expense
\* list are removed.
deleteGroup ==
    /\ me # 0
    /\ HasCurrentGroup
    /\ render([appState EXCEPT
                  !.groups = Without(@, currentGroupId),
                  !.membersByGroupId = DeleteKey(@, currentGroupId),
                  !.expensesByGroupId = DeleteKey(@, currentGroupId)],
              me, "home", 0, step)
    /\ UNCHANGED generated

AppNext ==
    \/ \E phone \in AppPhones : onSignup(phone)
    \/ \E phone \in AppPhones : onLogin(phone)
    \/ logout
    \/ goHome
    \/ startWizard
    \/ cancelWizard
    \/ createGroup
    \/ wizardBack
    \/ wizardFinish
    \/ \E g \in 1..MaxGroups : openGroup(g)
    \/ \E phone \in AppPhones : addWizardMember(phone)
    \/ \E phone \in AppPhones : addMemberToCurrentGroup(phone)
    \/ \E phone \in AppPhones : confirmRemoveCurrentMember(phone)
    \/ \E phone \in AppPhones : removeCurrentNonMember(phone)
    \/ deleteGroup

SpecApp == AppInit /\ [][AppNext]_vars

\* The ids under which the state keeps anything.
KeysOf(st) ==
    Range(st.groups) \cup DOMAIN st.membersByGroupId
        \cup DOMAIN st.nonMembersByGroupId \cup DOMAIN st.expensesByGroupId

\* What the state keeps of group g.
RecordsOf(st, g) ==
    [group |-> g \in Range(st.groups),
     members |-> IF g \in DOMAIN st.membersByGroupId
                 THEN <<st.membersByGroupId[g]>> ELSE <<>>,
     nonMembers |-> IF g \in DOMAIN st.nonMembersByGroupId
                    THEN <<st.nonMembersByGroupId[g]>> ELSE <<>>,
     expenses |-> IF g \in DOMAIN st.expensesByGroupId
                  THEN <<st.expensesByGroupId[g]>> ELSE <<>>]

\* C25: after deleteGroup on group g the state has no group g and no member
\* list, no invited non-member list and no expense list keyed by g, and the
\* records of every other group are as they were.
C25_GroupDeleted ==
    [][Len(appState'.groups) < Len(appState.groups) =>
         /\ currentGroupId \notin KeysOf(appState')
         /\ \A g \in KeysOf(appState) \ {currentGroupId} :
               RecordsOf(appState', g) = RecordsOf(appState, g)]_vars

\* C26: a phone occurs at most once among the members and the invited
\* non-members of a group, and adding a phone that is already a member or
\* an invited non-member of the current group leaves the state unchanged.
C26_UniquePhonePerGroup ==
    /\ [](\A g \in KeysOf(appState) :
            LET both == ListOf(appState.membersByGroupId, g)
                          \o ListOf(appState.nonMembersByGroupId, g)
            IN  \A a, b \in 1..Len(both) : a # b => both[a] # both[b])
    /\ [][\A phone \in AppPhones :
            ( /\ addWizardMember(phone) \/ addMemberToCurrentGroup(phone)
              /\ phone \in Range(ListOf(appState.membersByGroupId, currentGroupId))
                            \cup Range(ListOf(appState.nonMembersByGroupId,
                                              currentGroupId)) )
            => appState' = appState]_vars

\* A user who signed up after being invited is in the group view of the
\* group that still lists them as an invited non-member, next to a member.
C26_Witness ==
    /\ view = "group"
    /\ me \in appState.users
    /\ me \in Range(ListOf(appState.nonMembersByGroupId, currentGroupId))
    /\ Len(ListOf(appState.membersByGroupId, currentGroupId)) >= 1

\* C27: whenever the view is 'group' (and the effects have run), the current
\* group is one of the groups visible to the logged-in user.
C27_CurrentGroupVisible ==
    view = "group" => currentGroupId \in Range(myGroups(appState, me))

\* The new-expense message for the expense being folded.
NewExpenseMessage ==
    generateNewExpenseSMS([name |-> "Trip to SF"],
                          [description |-> "Gas", amountCents |-> e.amountCents,
                           payerPhone |-> e.payerPhone,
                           participants |-> e.participants],
                          <<>>)

\* C28: the share a new-expense SMS states is the amount the balance
\* computation takes off a participant of that expense, at every position
\* of the participant list.
C28_ReportedShare ==
    \A q \in 1..Len(debited) : NewExpenseMessage.share = formatCurrency(debited[q])

----------------------------------------------------------------------------
(* Claims about the SMS server's log *)

\* The ids of the groups, and of a group's expenses, in the server's data.
KnownGroups == {loadAppData.groups[n].id : n \in 1..Len(loadAppData.groups)}

KnownExpenses(groupId) ==
    LET xs == OrEmpty(loadAppData.expensesByGroupId, groupId)
    IN  {xs[n].id : n \in 1..Len(xs)}

\* The handler refuses with this status and leaves the log as it is.
Rejected(outcome, status) ==
    outcome.response.status = status /\ outcome.response.sms = <<>> /\ outcome.log = smsLog

\* C29: a POST to send-group-details, send-new-expense or
\* send-settlement-update that lacks a required field (phone, groupId, and
\* expenseId for send-new-expense) is answered 400; one that has all its
\* fields and names an unknown group, or an expense the group does not
\* have, is answered 404; in both cases the log keeps exactly the records
\* it had, and no answer of 400 or 404 ever comes with a change of the log.
C29_RejectionsLeaveLog ==
    /\ [](\A phone \in RequestPhones, groupId \in RequestGroups,
            expenseId \in RequestExpenses, loaded \in BOOLEAN, saved \in BOOLEAN :
            LET details == groupDetailsRoute(phone, groupId, loaded, saved)
                expense == newExpenseRoute(phone, groupId, expenseId, loaded, saved)
                update == settlementUpdateRoute(phone, groupId, loaded, saved)
            IN  /\ (phone = 0 \/ groupId = "")
                      => Rejected(details, 400) /\ Rejected(update, 400)
                /\ (phone # 0 /\ groupId # "" /\ groupId \notin KnownGroups)
                      => Rejected(details, 404) /\ Rejected(update, 404)
                /\ (phone = 0 \/ groupId = "" \/ expenseId = "")
                      => Rejected(expense, 400)
                /\ (/\ phone # 0 /\ groupId # "" /\ expenseId # ""
                    /\ \/ groupId \notin KnownGroups
                       \/ expenseId \notin KnownExpenses(groupId))
                      => Rejected(expense, 404))
    /\ [][response'.status \in {400, 404} => smsLog' = smsLog]_vars

\* C29 witness: with a message in the log, a request for the expense of
\* another group was answered 404 "Expense not found".
C29_Witness ==
    /\ smsLog # <<>>
    /\ response.status = 404
    /\ response.error = "Expense not found"

\* The record sendSMS makes for a phone and the message of a handler's answer.
SentRecord(phone, outcome) ==
    [phone |-> phone, message |-> outcome.response.sms[1].message, status |-> "sent"]

\* What C30 asks of the outcome of one request that reaches sendSMS: when it
\* is answered 200 the log is the log before with exactly one record more,
\* at the end, holding the given phone and the message with status 'sent';
\* otherwise (the save failed) the answer is the error 500 without a
\* message.
AppendsOne(phone, outcome) ==
    IF outcome.response.status = 200
    THEN /\ Len(outcome.response.sms) = 1
         /\ outcome.log = Append(smsLog, SentRecord(phone, outcome))
    ELSE outcome.response.status = 500 /\ outcome.response.sms = <<>>

\* C30: the SMS log is append-only between clears.  Every request that
\* reaches sendSMS and succeeds appends exactly one record (the given phone
\* and message, status 'sent') at the end of the log and leaves all earlier
\* records unchanged; one whose save fails is answered with an error and is
\* not reported as sent; the history that GET /api/sms/history reports is
\* the log; a successful clear leaves the log empty.
C30_AppendOnly ==
    /\ [](\A phone \in RequestPhones \ {0}, groupId \in KnownGroups,
            loaded \in BOOLEAN, saved \in BOOLEAN :
            /\ AppendsOne(phone, groupDetailsRoute(phone, groupId, loaded, saved))
            /\ AppendsOne(phone, settlementUpdateRoute(phone, groupId, loaded, saved))
            /\ \A expenseId \in KnownExpenses(groupId) :
                 AppendsOne(phone, newExpenseRoute(phone, groupId, expenseId, loaded, saved)))
    /\ [][\A loaded \in BOOLEAN : getHistory(loaded) => response'.sms = smsLog]_vars
    /\ [][\A saved \in BOOLEAN :
            clearHistory(saved) =>
               IF response'.status = 200 THEN smsLog' = <<>> ELSE smsLog' = smsLog]_vars

====
